---- MODULE Spec2Model ----
(***************************************************************************)
(* Multi-block coupling and time-marching controller of the structured 2D  *)
(* FVM solver (multiblocksolver/multiblock_solver.py, class                *)
(* MultiBlockSolver).                                                      *)
(*                                                                         *)
(* Blocks are numbered from 0 as in the source.  A cell index is a pair    *)
(* <<i, j>>; a block of dimensions (ni, nj) stores the cells               *)
(* (0..ni+1) x (0..nj+1): the real cells [1..ni] x [1..nj] and a halo ring. *)
(* Field values are provenance tokens: every location starts with a token  *)
(* naming itself, so a copy is visible as the token of its source.         *)
(***************************************************************************)
EXTENDS Integers, Sequences, FiniteSets, TLC

VARIABLES
    cfg,                \* constructor arguments kept on self (constant after __init__)
    bc_connection_info, \* self.bc_connection_info
    fields,             \* the solvers' field arrays
    t,                  \* self.t, counted in units of dt
    solver_t,           \* solvers[b].t, counted in units of dt
    inited,             \* blocks whose init() has been called
    running,            \* self.gui.running
    pause,              \* run(): pause
    step_index,         \* run(): step_index
    pc,                 \* position of the caller (run() and its harnesses)
    blk,                \* run(): loop variable block / step
    sp,                 \* position inside step() / step_dual()
    ib,                 \* the bc_interblock invocation in progress
    snap,               \* the fields when the current bc_interblock was entered
    log,                \* calls made in the current RK3 sub-stage
    trace,              \* time_* hook calls made in the current step()/step_dual()
    rlog,               \* run()-level calls (drawer, init, step)
    geo                 \* input and result of the geometry resolver harness

vars == <<cfg, bc_connection_info, fields, t, solver_t, inited, running, pause,
          step_index, pc, blk, sp, ib, snap, log, trace, rlog, geo>>

----------------------------------------------------------------------------
(* Bounds of the model *)

\* block dimensions used by the model: every block is NI x NJ
NI == 2
NJ == 3

\* loop iterations of run() that step the simulation
MaxBatches == 2

\* largest display_steps configured
MaxDisplaySteps == 2

\* key presses returned by one get_events call
MaxEvents == 2

\* the closed set of stages bc_connection dispatches on
Stages == {-1, 0, 1, 10, 20, 21, 22}

\* stage values outside the closed set, passed by the transfer harness
UnknownStages == {5}

----------------------------------------------------------------------------
(* Vectors and fields *)

VAdd(a, b) == <<a[1] + b[1], a[2] + b[2]>>

VScale(k, a) == <<k * a[1], k * a[2]>>

NSolvers == Len(cfg.block_dimensions)

Blocks == 0 .. (NSolvers - 1)

ni(solver) == cfg.block_dimensions[solver + 1][1]

nj(solver) == cfg.block_dimensions[solver + 1][2]

Cells(solver) == (0 .. ni(solver) + 1) \X (0 .. nj(solver) + 1)

RealCells(solver) == (1 .. ni(solver)) \X (1 .. nj(solver))

HaloCells(solver) == Cells(solver) \ RealCells(solver)

CellFieldNames == {"q", "elem_area", "gradient_v_c", "gradient_temp_c", "v_c", "temp_c"}

SurfFieldNames == {"v_surf", "temp_surf", "gradient_v_surf", "gradient_temp_surf"}

\* the field arrays of the block solvers as allocated, each location tagged with itself
InitFields(dims) ==
    LET B == 0 .. (Len(dims) - 1)
        C(b) == (0 .. dims[b + 1][1] + 1) \X (0 .. dims[b + 1][2] + 1)
        cell == [b \in B |-> [x \in C(b) |-> <<b, x[1], x[2]>>]]
        surf == [b \in B |-> [y \in C(b) \X {0, 1} |-> <<b, y[1][1], y[1][2], y[2]>>]]
    IN  [q |-> cell, elem_area |-> cell,
         gradient_v_c |-> cell, gradient_temp_c |-> cell,
         v_c |-> cell, temp_c |-> cell,
         elem_width |-> [b \in B |-> [x \in C(b) |->
                            << <<b, x[1], x[2], 0>>, <<b, x[1], x[2], 1>> >>]],
         v_surf |-> surf, temp_surf |-> surf,
         gradient_v_surf |-> surf, gradient_temp_surf |-> surf]

----------------------------------------------------------------------------
(* Inter-block connection geometry *)

\* calc_bc_connection_positions with the end side of the i-face placed at nj
calc_bc_connection_positions_nj(conn_info, n_i, n_j) ==
    LET index_start == conn_info[1]
        direction   == conn_info[2]
        surf_ij     == conn_info[3]
        surf_0n     == conn_info[4]
    IN  IF surf_ij = 0
        THEN IF surf_0n = 0
             THEN << <<1, index_start>>, <<0, direction>>, <<-1, 0>> >>
             ELSE << <<n_j, index_start>>, <<0, direction>>, <<1, 0>> >>
        ELSE IF surf_0n = 0
             THEN << <<index_start, 1>>, <<direction, 0>>, <<0, -1>> >>
             ELSE << <<index_start, n_j>>, <<direction, 0>>, <<0, 1>> >>

\* calc_bc_connection_positions with the end side resolved like the start side
calc_bc_connection_positions_start_only(conn_info, n_i, n_j) ==
    LET index_start == conn_info[1]
        direction   == conn_info[2]
        surf_ij     == conn_info[3]
    IN  IF surf_ij = 0
        THEN << <<1, index_start>>, <<0, direction>>, <<-1, 0>> >>
        ELSE << <<index_start, 1>>, <<direction, 0>>, <<0, -1>> >>

\* conn_info: <<start index, march direction, surface direction, surface index>>
calc_bc_connection_positions(conn_info, n_i, n_j) ==
    LET index_start == conn_info[1]
        direction   == conn_info[2]
        surf_ij     == conn_info[3]
        surf_0n     == conn_info[4]
    IN  IF surf_ij = 0
        THEN IF surf_0n = 0
             THEN << <<1, index_start>>, <<0, direction>>, <<-1, 0>> >>
             ELSE << <<n_i, index_start>>, <<0, direction>>, <<1, 0>> >>
        ELSE IF surf_0n = 0
             THEN << <<index_start, 1>>, <<direction, 0>>, <<0, -1>> >>
             ELSE << <<index_start, n_j>>, <<direction, 0>>, <<0, 1>> >>

\* calc_bc_surf_range with the start and end sides exchanged
calc_bc_surf_range_ends_exchanged(dir, end) ==
    IF dir = 0
    THEN IF end = 1 THEN <<-1, 0>> ELSE <<0, 0>>
    ELSE IF end = 1 THEN <<0, -1>> ELSE <<0, 0>>

calc_bc_surf_range(dir, end) ==
    IF dir = 0
    THEN IF end = 1 THEN <<0, 0>> ELSE <<-1, 0>>
    ELSE IF end = 1 THEN <<0, 0>> ELSE <<0, -1>>

----------------------------------------------------------------------------
(* bc_connection: one inter-block transfer kernel *)

\* bc_conn / bc_other: <<block, start index, march direction, surface direction, surface index>>
\* bc_conn[1:] of the source is the descriptor with the block index removed
Info(bc_desc) == SubSeq(bc_desc, 2, 5)

\* bc_connection_indices with the neighbor side not marched: every iteration reads
\* the neighbor's first cell
bc_connection_indices_other_fixed(solver, solver_other, bc_conn_info, bc_other_info, i) ==
    LET conn  == calc_bc_connection_positions(bc_conn_info, ni(solver), nj(solver))
        other == calc_bc_connection_positions(bc_other_info, ni(solver_other), nj(solver_other))
        offset_surf_range       == calc_bc_surf_range(bc_conn_info[3], bc_conn_info[4])
        other_offset_surf_range == calc_bc_surf_range(bc_other_info[3], bc_other_info[4])
        I       == VAdd(conn[1], VScale(i, conn[2]))
        I_other == other[1]
    IN  [I |-> I,
         I_bc |-> VAdd(I, conn[3]),
         I_other |-> I_other,
         I_surf |-> VAdd(I, offset_surf_range),
         I_surf_other |-> VAdd(I_other, other_offset_surf_range),
         conn_dir |-> bc_conn_info[3],
         other_conn_dir |-> bc_other_info[3]]

\* bc_connection_indices with the neighbor's halo cell read instead of its real cell
bc_connection_indices_reads_halo(solver, solver_other, bc_conn_info, bc_other_info, i) ==
    LET conn  == calc_bc_connection_positions(bc_conn_info, ni(solver), nj(solver))
        other == calc_bc_connection_positions(bc_other_info, ni(solver_other), nj(solver_other))
        offset_surf_range       == calc_bc_surf_range(bc_conn_info[3], bc_conn_info[4])
        other_offset_surf_range == calc_bc_surf_range(bc_other_info[3], bc_other_info[4])
        I       == VAdd(conn[1], VScale(i, conn[2]))
        I_other == VAdd(other[1], VScale(i, other[2]))
    IN  [I |-> I,
         I_bc |-> VAdd(I, conn[3]),
         I_other |-> VAdd(I_other, other[3]),
         I_surf |-> VAdd(I, offset_surf_range),
         I_surf_other |-> VAdd(I_other, other_offset_surf_range),
         conn_dir |-> bc_conn_info[3],
         other_conn_dir |-> bc_other_info[3]]

\* bc_connection_indices with the owner's real cell as the cell written
bc_connection_indices_writes_real(solver, solver_other, bc_conn_info, bc_other_info, i) ==
    LET conn  == calc_bc_connection_positions(bc_conn_info, ni(solver), nj(solver))
        other == calc_bc_connection_positions(bc_other_info, ni(solver_other), nj(solver_other))
        offset_surf_range       == calc_bc_surf_range(bc_conn_info[3], bc_conn_info[4])
        other_offset_surf_range == calc_bc_surf_range(bc_other_info[3], bc_other_info[4])
        I       == VAdd(conn[1], VScale(i, conn[2]))
        I_other == VAdd(other[1], VScale(i, other[2]))
    IN  [I |-> I,
         I_bc |-> I,
         I_other |-> I_other,
         I_surf |-> VAdd(I, offset_surf_range),
         I_surf_other |-> VAdd(I_other, other_offset_surf_range),
         conn_dir |-> bc_conn_info[3],
         other_conn_dir |-> bc_other_info[3]]

\* the indices of loop iteration i of the kernel
bc_connection_indices(solver, solver_other, bc_conn_info, bc_other_info, i) ==
    LET conn  == calc_bc_connection_positions(bc_conn_info, ni(solver), nj(solver))
        other == calc_bc_connection_positions(bc_other_info, ni(solver_other), nj(solver_other))
        offset_surf_range       == calc_bc_surf_range(bc_conn_info[3], bc_conn_info[4])
        other_offset_surf_range == calc_bc_surf_range(bc_other_info[3], bc_other_info[4])
        I       == VAdd(conn[1], VScale(i, conn[2]))
        I_other == VAdd(other[1], VScale(i, other[2]))
    IN  [I |-> I,
         I_bc |-> VAdd(I, conn[3]),
         I_other |-> I_other,
         I_surf |-> VAdd(I, offset_surf_range),
         I_surf_other |-> VAdd(I_other, other_offset_surf_range),
         conn_dir |-> bc_conn_info[3],
         other_conn_dir |-> bc_other_info[3]]

\* F[name][solver][at] = F[name][solver_other][from]
Assign(F, name, solver, at, solver_other, from) ==
    [F EXCEPT ![name][solver][at] = F[name][solver_other][from]]

\* bc_connection_elem_width without the exchange ("solver.elem_width[I_bc] = ...[I_other]")
bc_connection_elem_width_straight(F, solver, solver_other, bc_conn_info, bc_other_info, x) ==
    Assign(F, "elem_width", solver, x.I_bc, solver_other, x.I_other)

\* stage -1: elem_width, straight on a same-axis connection, components exchanged otherwise
bc_connection_elem_width(F, solver, solver_other, bc_conn_info, bc_other_info, x) ==
    IF bc_conn_info[3] = bc_other_info[3]
    THEN Assign(F, "elem_width", solver, x.I_bc, solver_other, x.I_other)
    ELSE LET F1 == [F EXCEPT !.elem_width[solver][x.I_bc][1] =
                                  F.elem_width[solver_other][x.I_other][2]]
         IN  [F1 EXCEPT !.elem_width[solver][x.I_bc][2] =
                                  F1.elem_width[solver_other][x.I_other][1]]

\* the body of loop iteration i: the static dispatch on stage
bc_connection_cell(F, solver, solver_other, bc_conn_info, bc_other_info, i, stage) ==
    LET x == bc_connection_indices(solver, solver_other, bc_conn_info, bc_other_info, i)
    IN  CASE stage = -1 ->
               bc_connection_elem_width(
                   Assign(F, "elem_area", solver, x.I_bc, solver_other, x.I_other),
                   solver, solver_other, bc_conn_info, bc_other_info, x)
          [] stage = 0 ->
               Assign(F, "q", solver, x.I_bc, solver_other, x.I_other)
          [] stage = 1 ->
               Assign(Assign(F, "gradient_v_c", solver, x.I_bc, solver_other, x.I_other),
                      "gradient_temp_c", solver, x.I_bc, solver_other, x.I_other)
          [] stage = 10 ->
               \* solver.bc_connection_advect_flux_cell(I, I_bc, dir, end): the block
               \* solver's own hook; none of the transferred fields is assigned here
               F
          [] stage = 20 ->
               Assign(Assign(F, "v_c", solver, x.I_bc, solver_other, x.I_other),
                      "temp_c", solver, x.I_bc, solver_other, x.I_other)
          [] stage = 21 ->
               Assign(Assign(F, "v_surf", solver, <<x.I_surf, x.conn_dir>>,
                             solver_other, <<x.I_surf_other, x.other_conn_dir>>),
                      "temp_surf", solver, <<x.I_surf, x.conn_dir>>,
                      solver_other, <<x.I_surf_other, x.other_conn_dir>>)
          [] stage = 22 ->
               Assign(Assign(F, "gradient_v_surf", solver, <<x.I_surf, x.conn_dir>>,
                             solver_other, <<x.I_surf_other, x.other_conn_dir>>),
                      "gradient_temp_surf", solver, <<x.I_surf, x.conn_dir>>,
                      solver_other, <<x.I_surf_other, x.other_conn_dir>>)
          [] OTHER -> F   \* "# else: Exception (not in kernel), asset?": no branch, no effect

\* for i in range(num), iterations i .. num-1
RECURSIVE bc_connection_from(_, _, _, _, _, _, _, _)
bc_connection_from(F, solver, solver_other, bc_conn_info, bc_other_info, num, stage, i) ==
    IF i >= num
    THEN F
    ELSE bc_connection_from(
             bc_connection_cell(F, solver, solver_other, bc_conn_info, bc_other_info, i, stage),
             solver, solver_other, bc_conn_info, bc_other_info, num, stage, i + 1)

bc_connection(F, solver, solver_other, bc_conn_info, bc_other_info, num, stage) ==
    bc_connection_from(F, solver, solver_other, bc_conn_info, bc_other_info, num, stage, 0)

\* one iteration of bc_interblock's loop: coupling = <<bc_conn, bc_other, num>>
bc_interblock_coupling(F, coupling, stage) ==
    LET bc_conn     == coupling[1]
        bc_other    == coupling[2]
        num         == coupling[3]
        block       == bc_conn[1]
        block_other == bc_other[1]
    IN  bc_connection(F, block, block_other, Info(bc_conn), Info(bc_other), num, stage)

\* bc_interblock(stage) over the couplings k .. Len(connections), in list order
RECURSIVE bc_interblock_from(_, _, _, _)
bc_interblock_from(F, connections, stage, k) ==
    IF k > Len(connections)
    THEN F
    ELSE bc_interblock_from(bc_interblock_coupling(F, connections[k], stage),
                            connections, stage, k + 1)

----------------------------------------------------------------------------
(* Connection lists handed to set_bc_connection *)

FaceLen(solver, surf_ij) == IF surf_ij = 0 THEN nj(solver) ELSE ni(solver)

\* the indices along the face that a side visits in num cells
MarchIndices(bc_desc, num) == {bc_desc[2] + k * bc_desc[3] : k \in 0 .. (num - 1)}

\* the side enumerates num real cells of its face
SideMatches(bc_desc, num) ==
    MarchIndices(bc_desc, num) \subseteq 1 .. FaceLen(bc_desc[1], bc_desc[4])

\* the side overruns its face, by one cell at most (still inside the stored array)
SideOverruns(bc_desc, num) ==
    /\ ~SideMatches(bc_desc, num)
    /\ MarchIndices(bc_desc, num) \subseteq 0 .. (FaceLen(bc_desc[1], bc_desc[4]) + 1)

\* <<block, face, face end>> of a descriptor
Side(bc_desc) == <<bc_desc[1], bc_desc[4], bc_desc[5]>>

AllDescs == Blocks \X (0 .. (NJ + 1)) \X {1, -1} \X {0, 1} \X {0, 1}

Nums == {NI, NJ}

\* the descriptors that enumerate num cells of their face
MatchedDescs(num) == {d \in AllDescs : SideMatches(d, num)}

\* couplings whose two sides both enumerate num cells, of two different sides
MatchedCouplings ==
    UNION {{c \in MatchedDescs(num) \X MatchedDescs(num) \X {num} :
               Side(c[1]) # Side(c[2])} : num \in Nums}

\* first couplings of a list: block 0 is the owner and marches upwards (the
\* neighbor marches either way)
FirstCouplings == {c \in MatchedCouplings : c[1][1] = 0 /\ c[1][3] = 1}

\* couplings between two blocks whose neighbor side has fewer cells than num
MismatchedCouplings ==
    UNION {{c \in {d \in MatchedDescs(num) : d[1] = 0 /\ d[3] = 1}
                  \X {d \in AllDescs : d[1] = 1 /\ SideOverruns(d, num)} \X {num} :
               TRUE} : num \in Nums}

\* the same connection seen from the other block
Reverse(coupling) == <<coupling[2], coupling[1], coupling[3]>>

\* the halo cells <<block, I_bc>> a coupling writes in the copy stages
HaloWritten(coupling) ==
    {<<coupling[1][1],
       bc_connection_indices(coupling[1][1], coupling[2][1],
                             Info(coupling[1]), Info(coupling[2]), i).I_bc>> :
        i \in 0 .. (coupling[3] - 1)}

\* second couplings tried with a first one: the reverse direction, and the same
\* neighbor for another stretch of the owner block's boundary
Companions(c) ==
    {Reverse(c)} \cup
    {d \in MatchedDescs(c[3]) \X {c[2]} \X {c[3]} :
        d[1][1] = c[1][1] /\ d[1][3] = 1 /\ Side(d[1]) # Side(d[2])}

PairLists == UNION {{<<c, d>> : d \in Companions(c)} : c \in FirstCouplings}

\* lists in which every halo cell has one coupling
DisjointLists ==
    {<<>>} \cup {<<c>> : c \in FirstCouplings} \cup
    {l \in PairLists : HaloWritten(l[1]) \cap HaloWritten(l[2]) = {}}

\* lists set_bc_connection accepts: it stores any list
AcceptedLists ==
    {<<>>} \cup {<<c>> : c \in FirstCouplings} \cup PairLists \cup
    {<<c>> : c \in MismatchedCouplings}

----------------------------------------------------------------------------
(* Operations *)

NoCall == [active |-> FALSE, stage |-> 0, k |-> 0]

NoPos == [fn |-> "none", phase |-> 0, k |-> 0, h |-> 0]

\* the object after __init__(..., block_dimensions, ...) with the given arguments
Constructed(args) ==
    /\ cfg = args
    /\ bc_connection_info = <<>>
    /\ fields = InitFields(args.block_dimensions)
    /\ t = 0
    /\ solver_t = [b \in 0 .. (Len(args.block_dimensions) - 1) |-> 0]
    /\ inited = {}
    /\ running = FALSE
    /\ pause = FALSE
    /\ step_index = 0
    /\ blk = 0
    /\ sp = NoPos
    /\ ib = NoCall
    /\ snap = InitFields(args.block_dimensions)
    /\ log = <<>>
    /\ trace = <<>>
    /\ rlog = <<>>

set_bc_connection(connections) ==
    /\ pc = "idle"
    /\ bc_connection_info' = connections
    /\ UNCHANGED <<cfg, fields, t, solver_t, inited, running, pause, step_index, pc,
                   blk, sp, ib, snap, log, trace, rlog, geo>>

\* entry of bc_interblock(stage)
bc_interblock_enter(stage) ==
    /\ ib' = [active |-> TRUE, stage |-> stage, k |-> 1]
    /\ snap' = fields
    /\ log' = Append(log, <<"bc_interblock", stage>>)

\* one iteration of the loop of bc_interblock: the bc_connection kernel on the next coupling
bc_interblock_iter ==
    /\ ib.active
    /\ ib.k <= Len(bc_connection_info)
    /\ fields' = bc_interblock_coupling(fields, bc_connection_info[ib.k], ib.stage)
    /\ ib' = [ib EXCEPT !.k = ib.k + 1]
    /\ log' = Append(log, <<"bc_connection", ib.stage, ib.k>>)
    /\ UNCHANGED <<cfg, bc_connection_info, t, solver_t, inited, running, pause,
                   step_index, pc, blk, sp, snap, trace, rlog, geo>>

----------------------------------------------------------------------------
(* step() and step_dual(): the sequence of loops each call runs through *)

\* "for solver in self.solvers:" with the hook calls of its body, in order
SolverLoop(hooks, outer, i) ==
    [kind |-> "solvers", hooks |-> hooks, stage |-> 0, outer |-> outer, i |-> i]

\* "self.bc_interblock(stage)"
Interblock(stage, outer, i) ==
    [kind |-> "interblock", hooks |-> <<>>, stage |-> stage, outer |-> outer, i |-> i]

\* diffusion_chain with bc_interblock(21) and bc_interblock(1) exchanged
diffusion_chain_syncs_exchanged(outer, i) ==
    << SolverLoop(<< <<"calc_u_temp_center">> >>, outer, i),
       Interblock(20, outer, i),
       SolverLoop(<< <<"flux_diffusion_interp_qsurf">>, <<"bc", 21>> >>, outer, i),
       Interblock(1, outer, i),
       SolverLoop(<< <<"flux_diffusion_integrate_gradient_center">>, <<"bc", 1>> >>, outer, i),
       Interblock(21, outer, i),
       SolverLoop(<< <<"flux_diffusion_calc_gradient_surf">>, <<"bc", 22>> >>, outer, i),
       Interblock(22, outer, i),
       SolverLoop(<< <<"calc_flux_diffusion">> >>, outer, i) >>

\* "if self.is_viscous:" block of one RK3 sub-stage
diffusion_chain(outer, i) ==
    << SolverLoop(<< <<"calc_u_temp_center">> >>, outer, i),
       Interblock(20, outer, i),
       SolverLoop(<< <<"flux_diffusion_interp_qsurf">>, <<"bc", 21>> >>, outer, i),
       Interblock(21, outer, i),
       SolverLoop(<< <<"flux_diffusion_integrate_gradient_center">>, <<"bc", 1>> >>, outer, i),
       Interblock(1, outer, i),
       SolverLoop(<< <<"flux_diffusion_calc_gradient_surf">>, <<"bc", 22>> >>, outer, i),
       Interblock(22, outer, i),
       SolverLoop(<< <<"calc_flux_diffusion">> >>, outer, i) >>

\* sub_stage with the state advance ahead of bc_interblock(10)
sub_stage_march_early(viscous, march, outer, i) ==
    << SolverLoop(<< <<"bc", 0>> >>, outer, i),
       Interblock(0, outer, i),
       SolverLoop(<< <<"clear_flux">> >>, outer, i) >>
    \o (IF viscous THEN diffusion_chain(outer, i) ELSE <<>>)
    \o << SolverLoop(<< <<"flux_advect">>, <<"bc", 10>> >>, outer, i),
          SolverLoop(<< march >>, outer, i),
          Interblock(10, outer, i) >>

\* sub_stage with bc_interblock(0) ahead of the local bc(0)
sub_stage_sync_before_bc(viscous, march, outer, i) ==
    << Interblock(0, outer, i),
       SolverLoop(<< <<"bc", 0>> >>, outer, i),
       SolverLoop(<< <<"clear_flux">> >>, outer, i) >>
    \o (IF viscous THEN diffusion_chain(outer, i) ELSE <<>>)
    \o << SolverLoop(<< <<"flux_advect">>, <<"bc", 10>> >>, outer, i),
          Interblock(10, outer, i),
          SolverLoop(<< march >>, outer, i) >>

\* sub_stage without bc_interblock(0)
sub_stage_without_state_sync(viscous, march, outer, i) ==
    << SolverLoop(<< <<"bc", 0>> >>, outer, i),
       SolverLoop(<< <<"clear_flux">> >>, outer, i) >>
    \o (IF viscous THEN diffusion_chain(outer, i) ELSE <<>>)
    \o << SolverLoop(<< <<"flux_advect">>, <<"bc", 10>> >>, outer, i),
          Interblock(10, outer, i),
          SolverLoop(<< march >>, outer, i) >>

\* sub_stage that runs the diffusion chain whether or not is_viscous is set
sub_stage_always_viscous(viscous, march, outer, i) ==
    << SolverLoop(<< <<"bc", 0>> >>, outer, i),
       Interblock(0, outer, i),
       SolverLoop(<< <<"clear_flux">> >>, outer, i) >>
    \o diffusion_chain(outer, i)
    \o << SolverLoop(<< <<"flux_advect">>, <<"bc", 10>> >>, outer, i),
          Interblock(10, outer, i),
          SolverLoop(<< march >>, outer, i) >>

\* the body of "for i in range(3):", ending with the state advance march
sub_stage(viscous, march, outer, i) ==
    << SolverLoop(<< <<"bc", 0>> >>, outer, i),
       Interblock(0, outer, i),
       SolverLoop(<< <<"clear_flux">> >>, outer, i) >>
    \o (IF viscous THEN diffusion_chain(outer, i) ELSE <<>>)
    \o << SolverLoop(<< <<"flux_advect">>, <<"bc", 10>> >>, outer, i),
          Interblock(10, outer, i),
          SolverLoop(<< march >>, outer, i) >>

\* rk3_loop with the sub-stages 1 and 2 exchanged
rk3_loop_exchanged(viscous, march, outer) ==
    sub_stage(viscous, march, outer, 0)
    \o sub_stage(viscous, march, outer, 2)
    \o sub_stage(viscous, march, outer, 1)

\* "for i in range(3):"
rk3_loop(viscous, march, outer) ==
    sub_stage(viscous, march, outer, 0)
    \o sub_stage(viscous, march, outer, 1)
    \o sub_stage(viscous, march, outer, 2)

step_program(viscous) ==
    << SolverLoop(<< <<"time_save_q">> >>, 0, -1) >>
    \o rk3_loop(viscous, <<"time_march_rk3">>, 0)

\* dual_iteration that saves with time_save_q_dual on every pass
dual_iteration_saves_dual(viscous, outer) ==
    << SolverLoop(<< <<"time_save_q_dual">> >>, outer, -1) >>
    \o rk3_loop(viscous, <<"time_march_rk3_dual">>, outer)

\* one iteration of "for _ in range(3):" of step_dual
dual_iteration(viscous, outer) ==
    << SolverLoop(<< <<"time_save_q_dual_sub">> >>, outer, -1) >>
    \o rk3_loop(viscous, <<"time_march_rk3_dual">>, outer)

step_dual_program(viscous) ==
    << SolverLoop(<< <<"time_save_q_dual">> >>, -1, -1) >>
    \o dual_iteration(viscous, 0)
    \o dual_iteration(viscous, 1)
    \o dual_iteration(viscous, 2)

Program(fn) ==
    IF fn = "step_dual" THEN step_dual_program(cfg.is_viscous)
    ELSE step_program(cfg.is_viscous)

Phase == Program(sp.fn)[sp.phase]

\* the call made for a hook of the program: the state advance takes the loop variables
HookCall(hook, phase, solver) ==
    CASE hook[1] = "time_march_rk3"      -> <<hook[1], phase.i, solver>>
      [] hook[1] = "time_march_rk3_dual" -> <<hook[1], phase.i, step_index, solver>>
      [] Len(hook) = 2                   -> <<hook[1], hook[2], solver>>
      [] OTHER                           -> <<hook[1], solver>>

TimeHooks == {"time_save_q", "time_save_q_dual", "time_save_q_dual_sub",
              "time_march_rk3", "time_march_rk3_dual"}

\* the position after the current loop of the program has finished
AfterPhase(pos) ==
    IF pos.phase < Len(Program(pos.fn))
    THEN [pos EXCEPT !.phase = pos.phase + 1, !.k = 0, !.h = 1]
    ELSE NoPos

\* the position after one hook call in a loop over the solvers
AfterHook(pos) ==
    IF pos.h < Len(Program(pos.fn)[pos.phase].hooks)
    THEN [pos EXCEPT !.h = pos.h + 1]
    ELSE IF pos.k + 1 < NSolvers
         THEN [pos EXCEPT !.k = pos.k + 1, !.h = 1]
         ELSE AfterPhase(pos)

\* a loop is the first of its sub-stage (or a save loop): the sub-stage log restarts
StartsSegment(pos) ==
    /\ pos.k = 0
    /\ pos.h = 1
    /\ \/ pos.phase = 1
       \/ Program(pos.fn)[pos.phase - 1].i # Program(pos.fn)[pos.phase].i
       \/ Program(pos.fn)[pos.phase - 1].outer # Program(pos.fn)[pos.phase].outer

\* the surface entries <<cell, direction>> of a block, and those on its four boundaries
Faces(solver) == Cells(solver) \X {0, 1}

BoundaryFaces(solver) ==
    {<<<<0, j>>, 0>> : j \in 1 .. nj(solver)} \cup {<<<<ni(solver), j>>, 0>> : j \in 1 .. nj(solver)}
    \cup {<<<<i, 0>>, 1>> : i \in 1 .. ni(solver)} \cup {<<<<i, nj(solver)>>, 1>> : i \in 1 .. ni(solver)}

\* the fields a block solver's hook assigns and where: the compute hooks on the
\* block's own cells and faces, the local boundary conditions on its halo ring and
\* boundary faces (the flux accumulators and the saved states are not among the
\* transferred fields)
HookWrites(call, solver) ==
    CASE call[1] \in {"time_march_rk3", "time_march_rk3_dual"} ->
             [names |-> {"q"}, at |-> RealCells(solver)]
      [] call[1] = "calc_u_temp_center" ->
             [names |-> {"v_c", "temp_c"}, at |-> RealCells(solver)]
      [] call[1] = "flux_diffusion_interp_qsurf" ->
             [names |-> {"v_surf", "temp_surf"}, at |-> Faces(solver)]
      [] call[1] = "flux_diffusion_integrate_gradient_center" ->
             [names |-> {"gradient_v_c", "gradient_temp_c"}, at |-> RealCells(solver)]
      [] call[1] = "flux_diffusion_calc_gradient_surf" ->
             [names |-> {"gradient_v_surf", "gradient_temp_surf"}, at |-> Faces(solver)]
      [] call[1] = "bc" /\ call[2] = 0 ->
             [names |-> {"q"}, at |-> HaloCells(solver)]
      [] call[1] = "bc" /\ call[2] = 21 ->
             [names |-> {"v_surf", "temp_surf"}, at |-> BoundaryFaces(solver)]
      [] call[1] = "bc" /\ call[2] = 1 ->
             [names |-> {"gradient_v_c", "gradient_temp_c"}, at |-> HaloCells(solver)]
      [] call[1] = "bc" /\ call[2] = 22 ->
             [names |-> {"gradient_v_surf", "gradient_temp_surf"}, at |-> BoundaryFaces(solver)]
      [] OTHER -> [names |-> {}, at |-> {}]

\* the number of the hook call in the run: sub-step, loop of the program, call of the loop body
Stamp == (t * Len(Program(sp.fn)) + sp.phase) * 2 + sp.h

\* a value computed by a hook call: the location tagged with the number of the call
Computed(solver, x, name, stamp) ==
    IF name \in SurfFieldNames
    THEN <<solver, x[1][1], x[1][2], x[2], stamp>>
    ELSE <<solver, x[1], x[2], stamp>>

\* the fields after the hook call on one solver
hook_effect(F, call, solver, stamp) ==
    LET w == HookWrites(call, solver)
    IN  [name \in DOMAIN F |->
            IF name \in w.names
            THEN [F[name] EXCEPT ![solver] =
                     [x \in DOMAIN F[name][solver] |->
                         IF x \in w.at THEN Computed(solver, x, name, stamp)
                         ELSE F[name][solver][x]]]
            ELSE F[name]]

\* one hook call on one solver inside step() / step_dual()
step_hook ==
    /\ sp.fn # "none"
    /\ ~ib.active
    /\ Phase.kind = "solvers"
    /\ LET call == HookCall(Phase.hooks[sp.h], Phase, sp.k)
       IN  /\ log' = IF StartsSegment(sp) THEN <<call>> ELSE Append(log, call)
           /\ trace' = IF call[1] \in TimeHooks THEN Append(trace, call) ELSE trace
           /\ fields' = hook_effect(fields, call, sp.k, Stamp)
    /\ sp' = AfterHook(sp)
    /\ UNCHANGED <<cfg, bc_connection_info, t, solver_t, inited, running, pause,
                   step_index, pc, blk, ib, snap, rlog, geo>>

\* the call self.bc_interblock(stage) inside step() / step_dual()
step_interblock ==
    /\ sp.fn # "none"
    /\ ~ib.active
    /\ Phase.kind = "interblock"
    /\ bc_interblock_enter(Phase.stage)
    /\ UNCHANGED <<cfg, bc_connection_info, fields, t, solver_t, inited, running, pause,
                   step_index, pc, blk, sp, trace, rlog, geo>>

\* the loop of bc_interblock has run out: return to the caller
bc_interblock_return ==
    /\ ib.active
    /\ ib.k > Len(bc_connection_info)
    /\ ib' = [ib EXCEPT !.active = FALSE]
    /\ sp' = IF sp.fn # "none" THEN AfterPhase(sp) ELSE sp
    /\ pc' = CASE pc = "xfer"      -> "synced"
               [] pc = "geom_sync" -> "init_display"
               [] OTHER            -> pc
    /\ UNCHANGED <<cfg, bc_connection_info, fields, t, solver_t, inited, running, pause,
                   step_index, blk, snap, log, trace, rlog, geo>>

----------------------------------------------------------------------------
(* run(): the main loop *)

Keys == {"ESCAPE", "SPACE", "a"}

EventLists == UNION {[1 .. n -> Keys] : n \in 0 .. MaxEvents}

\* "for e in self.gui.get_events(ti.GUI.PRESS):" on <<gui.running, pause>>
RECURSIVE handle_events(_, _)
handle_events(events, state) ==
    IF events = <<>>
    THEN state
    ELSE handle_events(
             Tail(events),
             IF Head(events) = "ESCAPE" THEN <<FALSE, state[2]>>
             ELSE IF Head(events) = "SPACE" THEN <<state[1], ~state[2]>>
             ELSE state)

\* run() up to drawer.set_gui(self.gui)
run_start ==
    /\ pc = "idle"
    /\ running' = TRUE
    /\ rlog' = << <<"set_gui">> >>
    /\ blk' = 0
    /\ pc' = "init"
    /\ UNCHANGED <<cfg, bc_connection_info, fields, t, solver_t, inited, pause,
                   step_index, sp, ib, snap, log, trace, geo>>

\* "for block in range(self.n_blocks): self.solvers[block].init()"
run_init_block ==
    /\ pc = "init"
    /\ blk < cfg.n_blocks
    /\ IF blk < NSolvers
       THEN /\ inited' = inited \cup {blk}
            /\ rlog' = Append(rlog, <<"init", blk>>)
            /\ blk' = blk + 1
            /\ pc' = pc
       ELSE /\ pc' = "IndexError"
            /\ UNCHANGED <<inited, rlog, blk>>
    /\ UNCHANGED <<cfg, bc_connection_info, fields, t, solver_t, running, pause,
                   step_index, sp, ib, snap, log, trace, geo>>

\* run_geom_sync placed ahead of the init loop
run_geom_sync_before_init ==
    /\ pc = "init"
    /\ blk = 0
    /\ bc_interblock_enter(-1)
    /\ rlog' = Append(rlog, <<"bc_interblock", -1>>)
    /\ pc' = "geom_sync"
    /\ UNCHANGED <<cfg, bc_connection_info, fields, t, solver_t, inited, running, pause,
                   step_index, blk, sp, trace, geo>>

\* "self.bc_interblock(-1)"
run_geom_sync ==
    /\ pc = "init"
    /\ blk = cfg.n_blocks
    /\ bc_interblock_enter(-1)
    /\ rlog' = Append(rlog, <<"bc_interblock", -1>>)
    /\ pc' = "geom_sync"
    /\ UNCHANGED <<cfg, bc_connection_info, fields, t, solver_t, inited, running, pause,
                   step_index, blk, sp, trace, geo>>

\* "self.drawer.init_display()", pause = False, step_index = 0
run_init_display ==
    /\ pc = "init_display"
    /\ rlog' = Append(rlog, <<"init_display">>)
    /\ pause' = FALSE
    /\ step_index' = 0
    /\ pc' = "while"
    /\ UNCHANGED <<cfg, bc_connection_info, fields, t, solver_t, inited, running,
                   blk, sp, ib, snap, log, trace, geo>>

\* "while self.gui.running:" is false
run_exit ==
    /\ pc = "while"
    /\ ~running
    /\ pc' = "exited"
    /\ UNCHANGED <<cfg, bc_connection_info, fields, t, solver_t, inited, running, pause,
                   step_index, blk, sp, ib, snap, log, trace, rlog, geo>>

\* run_poll with a paused pass that counts as a batch (step_index += 1 before continue)
run_poll_paused_counts(events) ==
    /\ pc = "while"
    /\ running
    /\ LET after == handle_events(events, <<running, pause>>)
       IN  /\ after[2] \/ step_index < MaxBatches
           /\ running' = after[1]
           /\ pause' = after[2]
           /\ IF after[2]
              THEN /\ rlog' = IF cfg.display_field
                              THEN << <<"display", step_index>> >> ELSE <<>>
                   /\ pc' = "while"
                   /\ blk' = blk
                   /\ step_index' = IF step_index < MaxBatches THEN step_index + 1
                                    ELSE step_index
              ELSE /\ rlog' = <<>>
                   /\ pc' = "batch"
                   /\ blk' = 0
                   /\ step_index' = step_index
    /\ UNCHANGED <<cfg, bc_connection_info, fields, t, solver_t, inited,
                   sp, ib, snap, log, trace, geo>>

\* one pass of the loop from the event poll to "if pause: ... continue"
run_poll(events) ==
    /\ pc = "while"
    /\ running
    /\ LET after == handle_events(events, <<running, pause>>)
       IN  /\ after[2] \/ step_index < MaxBatches
           /\ running' = after[1]
           /\ pause' = after[2]
           /\ IF after[2]
              THEN /\ rlog' = IF cfg.display_field
                              THEN << <<"display", step_index>> >> ELSE <<>>
                   /\ pc' = "while"
                   /\ blk' = blk
              ELSE /\ rlog' = <<>>
                   /\ pc' = "batch"
                   /\ blk' = 0
    /\ UNCHANGED <<cfg, bc_connection_info, fields, t, solver_t, inited,
                   step_index, sp, ib, snap, log, trace, geo>>

\* "for step in range(self.display_steps):" calls step_dual(step_index) or step()
run_step_call ==
    /\ pc = "batch"
    /\ blk < cfg.display_steps
    /\ sp' = [fn |-> IF cfg.is_dual_time THEN "step_dual" ELSE "step",
              phase |-> 1, k |-> 0, h |-> 1]
    /\ rlog' = Append(rlog, IF cfg.is_dual_time THEN <<"step_dual", step_index>>
                            ELSE <<"step">>)
    /\ trace' = <<>>
    /\ log' = <<>>
    /\ pc' = "in_step"
    /\ UNCHANGED <<cfg, bc_connection_info, fields, t, solver_t, inited, running, pause,
                   step_index, blk, ib, snap, geo>>

\* step()/step_dual() has returned: self.t += self.dt and the copy of t to the blocks
run_step_done ==
    /\ pc = "in_step"
    /\ sp.fn = "none"
    /\ ~ib.active
    /\ t' = t + 1
    /\ solver_t' = [b \in Blocks |-> IF b < cfg.n_blocks THEN t + 1 ELSE solver_t[b]]
    /\ blk' = blk + 1
    /\ pc' = "batch"
    /\ UNCHANGED <<cfg, bc_connection_info, fields, inited, running, pause,
                   step_index, sp, ib, snap, log, trace, rlog, geo>>

\* run_batch_end that calls drawer.display whether or not display_field is set
run_batch_end_always_displays ==
    /\ pc = "batch"
    /\ blk = cfg.display_steps
    /\ rlog' = rlog
               \o << <<"display", step_index>> >>
               \o (IF cfg.output_line THEN << <<"display_output_line">> >> ELSE <<>>)
    /\ step_index' = step_index + 1
    /\ pc' = "while"
    /\ UNCHANGED <<cfg, bc_connection_info, fields, t, solver_t, inited, running, pause,
                   blk, sp, ib, snap, log, trace, geo>>

\* after the batch: print, display, display_output_line, step_index += 1
run_batch_end ==
    /\ pc = "batch"
    /\ blk = cfg.display_steps
    /\ rlog' = rlog
               \o (IF cfg.display_field THEN << <<"display", step_index>> >> ELSE <<>>)
               \o (IF cfg.output_line THEN << <<"display_output_line">> >> ELSE <<>>)
    /\ step_index' = step_index + 1
    /\ pc' = "while"
    /\ UNCHANGED <<cfg, bc_connection_info, fields, t, solver_t, inited, running, pause,
                   blk, sp, ib, snap, log, trace, geo>>

----------------------------------------------------------------------------
(* Harnesses: a single bc_interblock call, and the geometry resolver *)

\* bc_interblock(stage) called on the constructed solver
xfer_call(stage) ==
    /\ pc = "idle"
    /\ pc' = "xfer"
    /\ bc_interblock_enter(stage)
    /\ UNCHANGED <<cfg, bc_connection_info, fields, t, solver_t, inited, running, pause,
                   step_index, blk, sp, trace, rlog, geo>>

NoGeo == [conn_info |-> <<>>, ni |-> 0, nj |-> 0, positions |-> <<>>, surf_range |-> <<>>]

\* calc_bc_connection_positions and calc_bc_surf_range applied to the drawn arguments
geo_resolve ==
    /\ pc = "geo"
    /\ pc' = "resolved"
    /\ geo' = [geo EXCEPT
                 !.positions = calc_bc_connection_positions(geo.conn_info, geo.ni, geo.nj),
                 !.surf_range = calc_bc_surf_range(geo.conn_info[3], geo.conn_info[4])]
    /\ UNCHANGED <<cfg, bc_connection_info, fields, t, solver_t, inited, running, pause,
                   step_index, blk, sp, ib, snap, log, trace, rlog>>

----------------------------------------------------------------------------
(* Specifications *)

Args(viscous, dual, field, line, steps, n, dims) ==
    [is_viscous |-> viscous, is_dual_time |-> dual, display_field |-> field,
     output_line |-> line, display_steps |-> steps, n_blocks |-> n,
     block_dimensions |-> dims]

OneBlock == << <<NI, NJ>> >>

TwoBlocks == << <<NI, NJ>>, <<NI, NJ>> >>

\* the sample of the constructor's comment: the i-start side of block 0 takes the
\* i-end side of block 0, j marching up on both sides
Periodic == << <<0, 1, 1, 0, 0>>, <<0, 1, 1, 0, 1>>, NJ >>

\* the i-end side of block 0 takes the i-start side of block 1, marching in
\* opposite directions
Seam == << <<0, 1, 1, 0, 1>>, <<1, NJ, -1, 0, 0>>, NJ >>

\* connection lists of the cases run through run()
RunLists ==
    {<<>>, <<Periodic, Reverse(Periodic)>>}
    \cup (IF NSolvers >= 2 THEN {<<Seam, Reverse(Seam)>>} ELSE {})

\* the transfer harness on two blocks, connection lists with one coupling per halo cell
InitXfer ==
    /\ Constructed(Args(TRUE, FALSE, TRUE, FALSE, 1, 2, TwoBlocks))
    /\ pc = "idle"
    /\ geo = NoGeo

CoreNext == bc_interblock_iter \/ bc_interblock_return

NextXfer ==
    \/ /\ bc_connection_info = <<>>
       /\ pc = "idle"
       /\ \E connections \in DisjointLists : set_bc_connection(connections)
    \/ \E stage \in Stages \cup UnknownStages : xfer_call(stage)
    \/ CoreNext

SpecXfer == InitXfer /\ [][NextXfer]_vars

\* the transfer harness with every list set_bc_connection stores
NextAny ==
    \/ /\ bc_connection_info = <<>>
       /\ pc = "idle"
       /\ \E connections \in AcceptedLists : set_bc_connection(connections)
    \/ \E stage \in Stages \cup UnknownStages : xfer_call(stage)
    \/ CoreNext

SpecAny == InitXfer /\ [][NextAny]_vars

\* the geometry resolver on drawn arguments
InitGeom ==
    /\ Constructed(Args(FALSE, FALSE, TRUE, FALSE, 1, 1, OneBlock))
    /\ pc = "geo"
    /\ \E conn_info \in (1 .. NJ) \X {1, -1} \X {0, 1} \X {0, 1},
          n_i \in 1 .. (NI + 1), n_j \in 1 .. (NJ + 1) :
            geo = [NoGeo EXCEPT !.conn_info = conn_info, !.ni = n_i, !.nj = n_j]

SpecGeom == InitGeom /\ [][geo_resolve]_vars

RunNext ==
    \/ \E connections \in RunLists : set_bc_connection(connections)
    \/ run_start
    \/ run_init_block
    \/ run_geom_sync
    \/ run_init_display
    \/ run_exit
    \/ \E events \in EventLists : run_poll(events)
    \/ run_step_call
    \/ run_step_done
    \/ run_batch_end
    \/ step_hook
    \/ step_interblock
    \/ CoreNext

\* the time-marching controller: run() with one step per batch, every combination
\* of is_viscous and is_dual_time, one or two blocks
InitStep ==
    /\ \E viscous \in BOOLEAN, dual \in BOOLEAN, dims \in {OneBlock, TwoBlocks} :
          Constructed(Args(viscous, dual, TRUE, FALSE, 1, Len(dims), dims))
    /\ pc = "idle"
    /\ geo = NoGeo

SpecStep == InitStep /\ [][RunNext]_vars

\* run() with every display configuration
Init ==
    /\ \E dual \in BOOLEAN, field \in BOOLEAN, line \in BOOLEAN,
          steps \in 1 .. MaxDisplaySteps, dims \in {OneBlock, TwoBlocks},
          n \in 1 .. 2 :
            Constructed(Args(FALSE, dual, field, line, steps, n, dims))
    /\ pc = "idle"
    /\ geo = NoGeo

Next == RunNext

Spec == Init /\ [][Next]_vars

----------------------------------------------------------------------------
(* Properties of the connection geometry *)

\* C4: calc_bc_connection_positions returns, for the four (face, face_end) cases,
\* i-face/start -> pos_start=(1,index_start), direction_offset=(0,direction),
\* halo_offset=(-1,0); i-face/end -> (ni,index_start), (0,direction), (1,0);
\* j-face/start -> (index_start,1), (direction,0), (0,-1);
\* j-face/end -> (index_start,nj), (direction,0), (0,1).
C4_ResolverTable ==
    pc = "resolved" =>
        LET index_start == geo.conn_info[1]
            direction   == geo.conn_info[2]
            face        == geo.conn_info[3]
            face_end    == geo.conn_info[4]
            pos_start        == geo.positions[1]
            direction_offset == geo.positions[2]
            halo_offset      == geo.positions[3]
        IN  /\ Len(geo.positions) = 3
            /\ (face = 0 /\ face_end = 0) =>
                   /\ pos_start = <<1, index_start>>
                   /\ direction_offset = <<0, direction>>
                   /\ halo_offset = <<-1, 0>>
            /\ (face = 0 /\ face_end = 1) =>
                   /\ pos_start = <<geo.ni, index_start>>
                   /\ direction_offset = <<0, direction>>
                   /\ halo_offset = <<1, 0>>
            /\ (face = 1 /\ face_end = 0) =>
                   /\ pos_start = <<index_start, 1>>
                   /\ direction_offset = <<direction, 0>>
                   /\ halo_offset = <<0, -1>>
            /\ (face = 1 /\ face_end = 1) =>
                   /\ pos_start = <<index_start, geo.nj>>
                   /\ direction_offset = <<direction, 0>>
                   /\ halo_offset = <<0, 1>>

\* C4 witness: the resolver has answered for an i-face end side of a block with ni # nj
C4_Witness ==
    /\ pc = "resolved"
    /\ geo.conn_info[3] = 0
    /\ geo.conn_info[4] = 1
    /\ geo.conn_info[2] = -1
    /\ geo.ni # geo.nj
    /\ geo.positions[1] = <<geo.ni, geo.conn_info[1]>>

----------------------------------------------------------------------------
(* Properties of one bc_interblock call *)

\* the call bc_interblock(stage) has returned
Synced(stage) == pc = "synced" /\ ~ib.active /\ ib.stage = stage

\* owner halo cell and neighbor real cell of transfer i of a coupling, written out
\* from the resolver's results
OwnerHalo(coupling, i) ==
    LET r == calc_bc_connection_positions(Info(coupling[1]),
                                          ni(coupling[1][1]), nj(coupling[1][1]))
    IN  <<r[1][1] + i * r[2][1] + r[3][1], r[1][2] + i * r[2][2] + r[3][2]>>

NeighborReal(coupling, i) ==
    LET r == calc_bc_connection_positions(Info(coupling[2]),
                                          ni(coupling[2][1]), nj(coupling[2][1]))
    IN  <<r[1][1] + i * r[2][1], r[1][2] + i * r[2][2]>>

\* C3: after bc_interblock(0), for every registered coupling and every i in 0..num-1
\* the owner's halo cell q[pos_start + i*direction_offset + halo_offset] equals the
\* neighbor's real cell q[other_pos_start + i*other_direction_offset] as it was when
\* the sync started, whichever way the two sides march.
C3_StateSyncCopies ==
    Synced(0) =>
        \A k \in 1 .. Len(bc_connection_info) :
            LET c == bc_connection_info[k]
            IN  \A i \in 0 .. (c[3] - 1) :
                    /\ NeighborReal(c, i) \in RealCells(c[2][1])
                    /\ OwnerHalo(c, i) \in HaloCells(c[1][1])
                    /\ fields.q[c[1][1]][OwnerHalo(c, i)] = snap.q[c[2][1]][NeighborReal(c, i)]

\* C3 witness: a state sync has returned for a connection registered in both
\* directions whose sides march in opposite directions
C3_Witness ==
    /\ Synced(0)
    /\ Len(bc_connection_info) = 2
    /\ bc_connection_info[2] = Reverse(bc_connection_info[1])
    /\ bc_connection_info[1][1][3] # bc_connection_info[1][2][3]
    /\ bc_connection_info[1][1][1] # bc_connection_info[1][2][1]
    /\ fields.q # snap.q

\* C5: after the geometry stage, for every transferred cell the owner halo elem_area
\* equals the neighbor real cell's, and the owner halo elem_width equals the neighbor's
\* with the components in the same order when both faces have the same axis and
\* with components 0 and 1 exchanged when one is an i-face and the other a j-face.
C5_GeometryOrientation ==
    Synced(-1) =>
        \A k \in 1 .. Len(bc_connection_info) :
            LET c == bc_connection_info[k]
            IN  \A i \in 0 .. (c[3] - 1) :
                    LET got  == fields.elem_width[c[1][1]][OwnerHalo(c, i)]
                        from == snap.elem_width[c[2][1]][NeighborReal(c, i)]
                    IN  /\ fields.elem_area[c[1][1]][OwnerHalo(c, i)]
                             = snap.elem_area[c[2][1]][NeighborReal(c, i)]
                        /\ c[1][4] = c[2][4] => got = from
                        /\ c[1][4] # c[2][4] => got = <<from[2], from[1]>>

\* C5 witness: a geometry sync has returned for an i-face that takes a j-face
C5_Witness ==
    /\ Synced(-1)
    /\ Len(bc_connection_info) >= 1
    /\ bc_connection_info[1][1][4] = 0
    /\ bc_connection_info[1][2][4] = 1
    /\ fields.elem_width # snap.elem_width

\* the orders in which a list of up to two couplings can be processed
Orders(connections) ==
    {connections, [k \in 1 .. Len(connections) |-> connections[Len(connections) + 1 - k]]}

\* the boundary-face entries <<block, I_surf, face>> a coupling writes, and those
\* it reads, in the surface stages
SurfWritten(c) ==
    {LET x == bc_connection_indices(c[1][1], c[2][1], Info(c[1]), Info(c[2]), i)
     IN  <<c[1][1], x.I_surf, x.conn_dir>> : i \in 0 .. (c[3] - 1)}

SurfRead(c) ==
    {LET x == bc_connection_indices(c[1][1], c[2][1], Info(c[1]), Info(c[2]), i)
     IN  <<c[2][1], x.I_surf_other, x.other_conn_dir>> : i \in 0 .. (c[3] - 1)}

\* no coupling of the list writes a boundary-face entry another coupling reads or writes
SurfaceDisjoint(connections) ==
    \A k1, k2 \in 1 .. Len(connections) :
        k1 # k2 =>
            /\ SurfWritten(connections[k1]) \cap SurfRead(connections[k2]) = {}
            /\ SurfWritten(connections[k1]) \cap SurfWritten(connections[k2]) = {}

\* the result of the call that has returned is the same in every processing order
OrderIndependent ==
    \A o \in Orders(bc_connection_info) : bc_interblock_from(snap, o, ib.stage, 1) = fields

WrittenBy(k) ==
    {<<bc_connection_info[k][1][1], OwnerHalo(bc_connection_info[k], i)>> :
        i \in 0 .. (bc_connection_info[k][3] - 1)}

C8_UnknownStageFails ==
    ~(/\ pc = "synced"
      /\ ib.stage \notin Stages
      /\ Len(bc_connection_info) > 0
      /\ fields = snap)

\* C9: a connection whose two sides have mismatched cell counts is rejected when it
\* is registered, so no registered coupling has a side with fewer cells than num.
C9_MismatchRejected ==
    \A k \in 1 .. Len(bc_connection_info) :
        /\ SideMatches(bc_connection_info[k][1], bc_connection_info[k][3])
        /\ SideMatches(bc_connection_info[k][2], bc_connection_info[k][3])

----------------------------------------------------------------------------
(* Properties of the time-marching controller, read off the log of calls *)

\* the place of a logged call in the order of one RK3 sub-stage:
\*  1 bc(0)            2 bc_interblock(0)    3 clear_flux
\*  4 calc_u_temp_center                     5 bc_interblock(20)
\*  6 flux_diffusion_interp_qsurf, bc(21)    7 bc_interblock(21)
\*  8 flux_diffusion_integrate_gradient_center, bc(1)   9 bc_interblock(1)
\* 10 flux_diffusion_calc_gradient_surf, bc(22)        11 bc_interblock(22)
\* 12 calc_flux_diffusion
\* 13 flux_advect, bc(10)   14 bc_interblock(10)   15 time_march_rk3 / time_march_rk3_dual
\* (0: a save hook, -1: the geometry sync)
StageRank(stage) ==
    CASE stage = 0 -> 2 [] stage = 20 -> 5 [] stage = 21 -> 7 [] stage = 1 -> 9
      [] stage = 22 -> 11 [] stage = 10 -> 14 [] OTHER -> -1

BcRank(stage) ==
    CASE stage = 0 -> 1 [] stage = 21 -> 6 [] stage = 1 -> 8 [] stage = 22 -> 10
      [] stage = 10 -> 13 [] OTHER -> -1

Rank(call) ==
    CASE call[1] \in {"bc_interblock", "bc_connection"} -> StageRank(call[2])
      [] call[1] = "bc" -> BcRank(call[2])
      [] call[1] = "clear_flux" -> 3
      [] call[1] = "calc_u_temp_center" -> 4
      [] call[1] = "flux_diffusion_interp_qsurf" -> 6
      [] call[1] = "flux_diffusion_integrate_gradient_center" -> 8
      [] call[1] = "flux_diffusion_calc_gradient_surf" -> 10
      [] call[1] = "calc_flux_diffusion" -> 12
      [] call[1] = "flux_advect" -> 13
      [] call[1] \in {"time_march_rk3", "time_march_rk3_dual"} -> 15
      [] OTHER -> 0

\* the calls of one place when it is complete: one hook, or a hook and its bc, on
\* every block; the bc_interblock call and one bc_connection per coupling
GroupSize(rank) ==
    CASE rank \in {1, 3, 4, 12, 15} -> NSolvers
      [] rank \in {6, 8, 10, 13} -> 2 * NSolvers
      [] OTHER -> 1 + Len(bc_connection_info)

CountBefore(n, rank) == Cardinality({m \in 1 .. (n - 1) : Rank(log[m]) = rank})

\* the compute hook that a local bc(stage) call follows on the same block
HookBeforeBc(stage) ==
    CASE stage = 21 -> "flux_diffusion_interp_qsurf"
      [] stage = 1 -> "flux_diffusion_integrate_gradient_center"
      [] stage = 22 -> "flux_diffusion_calc_gradient_surf"
      [] OTHER -> "flux_advect"

\* every logged call names a block of the solver list or a registered coupling
WellAddressed(call) ==
    CASE call[1] = "bc_interblock" -> TRUE
      [] call[1] = "bc_connection" -> call[3] \in 1 .. Len(bc_connection_info)
      [] OTHER -> call[Len(call)] \in Blocks

\* C1: within every RK3 sub-stage of step() and step_dual() the calls come in the
\* order bc(0) on every block, bc_interblock(0), clear_flux on every block, the
\* diffusion chain (only if viscous), flux_advect and bc(10) on every block,
\* bc_interblock(10), the state advance on every block; no block advances before
\* bc_interblock(10) has processed every coupling and no block runs flux_advect
\* before bc_interblock(0) has processed every coupling.
C1_SubStageOrder ==
    \A n \in 1 .. Len(log) :
        LET r == Rank(log[n])
        IN  r >= 1 =>
              /\ WellAddressed(log[n])
              /\ \A m \in 1 .. (n - 1) : Rank(log[m]) <= r /\ log[m] # log[n]
              /\ \A r0 \in {1, 2, 3, 13, 14} : r0 < r => CountBefore(n, r0) = GroupSize(r0)
              /\ r \in 4 .. 12 => cfg.is_viscous
              /\ (r >= 13 /\ cfg.is_viscous) =>
                     \A r0 \in 4 .. 12 : CountBefore(n, r0) = GroupSize(r0)
              /\ (log[n][1] = "bc" /\ log[n][2] = 10) =>
                     \E m \in 1 .. (n - 1) : log[m] = <<"flux_advect", log[n][3]>>

\* C1 witness: a viscous dual-time sub-stage on two blocks with two couplings has
\* finished its state advance
C1_Witness ==
    /\ cfg.is_viscous
    /\ cfg.is_dual_time
    /\ NSolvers = 2
    /\ Len(bc_connection_info) = 2
    /\ Len(log) > 0
    /\ log[Len(log)] = <<"time_march_rk3_dual", 2, step_index, 1>>
    /\ CountBefore(Len(log), 14) = 3

\* C2: when is_viscous, every RK3 sub-stage runs between clear_flux and flux_advect
\* exactly calc_u_temp_center on all blocks, bc_interblock(20),
\* flux_diffusion_interp_qsurf and bc(21) on all blocks, bc_interblock(21),
\* flux_diffusion_integrate_gradient_center and bc(1) on all blocks, bc_interblock(1),
\* flux_diffusion_calc_gradient_surf and bc(22) on all blocks, bc_interblock(22),
\* calc_flux_diffusion on all blocks; each bc_interblock starts after every block has
\* finished the hook and local bc before it, and the next hook starts after that
\* bc_interblock has processed every coupling.
C2_DiffusionChainOrder ==
    cfg.is_viscous =>
        \A n \in 1 .. Len(log) :
            LET r == Rank(log[n])
            IN  r \in 4 .. 13 =>
                  /\ \A r0 \in 3 .. (r - 1) : CountBefore(n, r0) = GroupSize(r0)
                  /\ \A m \in 1 .. (n - 1) :
                         /\ log[m] # log[n]
                         /\ Rank(log[m]) <= r
                         /\ Rank(log[m]) = r =>
                                (log[m][1] = "bc_interblock" \/ log[n][1] # "bc_interblock")
                  /\ (log[n][1] = "bc" /\ r < 13) =>
                         \E m \in 1 .. (n - 1) : log[m] = <<HookBeforeBc(log[n][2]), log[n][3]>>
                  /\ WellAddressed(log[n])

\* C2 witness: flux_advect starts on block 0 after a complete diffusion chain on two
\* blocks with two couplings
C2_Witness ==
    /\ cfg.is_viscous
    /\ NSolvers = 2
    /\ Len(bc_connection_info) = 2
    /\ Len(log) > 0
    /\ log[Len(log)] = <<"flux_advect", 0>>
    /\ \A r0 \in 4 .. 12 : CountBefore(Len(log), r0) = GroupSize(r0)

\* a hook call on every block of the solver list, in list order
OnAll(call) == [b \in 1 .. NSolvers |-> Append(call, b - 1)]

\* the time_* calls of one outer pseudo-time iteration of step_dual(index)
ExpectedDualIteration(index) ==
    OnAll(<<"time_save_q_dual_sub">>)
    \o OnAll(<<"time_march_rk3_dual", 0, index>>)
    \o OnAll(<<"time_march_rk3_dual", 1, index>>)
    \o OnAll(<<"time_march_rk3_dual", 2, index>>)

ExpectedDualTrace(index) ==
    OnAll(<<"time_save_q_dual">>)
    \o ExpectedDualIteration(index)
    \o ExpectedDualIteration(index)
    \o ExpectedDualIteration(index)

CountIn(seq, S) == Cardinality({n \in 1 .. Len(seq) : seq[n] \in S})

\* C10: one step_dual() calls time_save_q_dual once per block before anything else,
\* then runs 3 outer iterations, each calling time_save_q_dual_sub once per block
\* before its sub-stages and then the sub-stages 0, 1, 2 once, in order: 9 state
\* advances per block; time_save_q is never called.
C10_DualTimeStructure ==
    (cfg.is_dual_time /\ pc = "in_step") =>
        LET expected == ExpectedDualTrace(step_index)
            last     == NSolvers - 1
            saved    == CountIn(trace, {<<"time_save_q_dual", last>>})
            subs     == CountIn(trace, {<<"time_save_q_dual_sub", last>>})
            started  == CountIn(trace, {<<"time_march_rk3_dual", i, step_index, last>> :
                                          i \in 0 .. 2})
        IN  /\ Len(trace) <= Len(expected)
            /\ \A n \in 1 .. Len(trace) : trace[n] = expected[n]
            /\ sp.fn = "none" =>
                   /\ trace = expected
                   /\ \A b \in Blocks :
                          CountIn(trace, {<<"time_march_rk3_dual", i, step_index, b>> :
                                            i \in 0 .. 2}) = 9
            /\ \A n \in 1 .. Len(log) :
                   /\ log[n][1] # "time_save_q"
                   /\ Rank(log[n]) >= 1 => (saved = 1 /\ subs >= 1 /\ started <= 3 * subs)
                   /\ Rank(log[n]) = 15 =>
                          \A m \in 1 .. (n - 1) : Rank(log[m]) = 15 => log[m][2] = log[n][2]

\* C10 witness: a step_dual(1) on two blocks has returned after 18 state advances
C10_Witness ==
    /\ cfg.is_dual_time
    /\ pc = "in_step"
    /\ sp.fn = "none"
    /\ NSolvers = 2
    /\ step_index = 1
    /\ Len(trace) = 26
    /\ CountIn(trace, {<<"time_save_q_dual_sub", 1>>}) = 3

----------------------------------------------------------------------------
(* Properties of the main loop of run() *)

\* a sub-step of the current pass of the loop is running or has run
InBatch == pc = "in_step" \/ (pc = "batch" /\ blk > 0)

\* C11: once the quit signal has been observed at the event poll, no step() or
\* step_dual() is executed and t is not advanced: a pass of the loop that runs its
\* batch has gui.running still set.
C11_NoStepAfterQuit ==
    InBatch => running

\* the sub-steps of the current batch so far, as run() called them
StepCalls(n) ==
    [k \in 1 .. n |-> IF cfg.is_dual_time THEN <<"step_dual", step_index>> ELSE <<"step">>]

\* t counts the sub-steps (in units of dt): display_steps for every completed
\* non-paused pass, and the sub-steps of the running batch
BatchAccounting ==
    /\ pc = "while" => t = cfg.display_steps * step_index
    /\ pc = "batch" =>
           /\ blk <= cfg.display_steps
           /\ rlog = StepCalls(blk)
           /\ t = cfg.display_steps * step_index + blk
    /\ pc = "in_step" =>
           /\ blk < cfg.display_steps
           /\ rlog = StepCalls(blk + 1)
           /\ t = cfg.display_steps * step_index + blk

\* C12: every non-paused pass of the loop executes exactly display_steps sub-steps
\* (step_dual if is_dual_time, else step), t advances by dt after each, and after each
\* sub-step and at every batch boundary every block's t equals self.t.
C12_BatchStepsAndTime ==
    /\ BatchAccounting
    /\ pc \in {"while", "batch"} => \A b \in Blocks : solver_t[b] = t

\* the simulated state: the fields and times of the blocks, the controller's time and
\* batch counter, and the calls made on the blocks and the synchronizer
Simulated == <<fields, t, solver_t, step_index, log, trace, sp, ib, snap, inited,
               bc_connection_info>>

\* C13: a pass of the loop that is paused after its event poll calls no step, no
\* bc_interblock and no block hook, leaves self.t, every block's t and step_index as
\* they are, and only calls drawer.display(step_index) when display_field is set; a
\* pass in which the pause is toggled off starts its batch from that same state.
C13_PausedPassFrame ==
    [][(pc = "while" /\ running) =>
          /\ UNCHANGED Simulated
          /\ pause' => /\ pc' = "while"
                       /\ rlog' = IF cfg.display_field
                                  THEN << <<"display", step_index>> >> ELSE <<>>
          /\ ~pause' => (pc' = "batch" /\ rlog' = <<>>)]_vars

\* C13 witness: the loop is paused after a batch and has redrawn the last frame
C13_Witness ==
    /\ pc = "while"
    /\ running
    /\ pause
    /\ t > 0
    /\ cfg.display_field
    /\ rlog = << <<"display", step_index>> >>

----------------------------------------------------------------------------
(* Frame and surface properties of the transfer stages *)

CopyStages == {-1, 0, 1, 20}

\* the blocks that own a registered coupling
OwnerBlocks == {bc_connection_info[k][1][1] : k \in 1 .. Len(bc_connection_info)}

\* the halo cells of a block that are the I_bc of some transfer of a registered coupling
CoupledHalo(b) ==
    UNION {{OwnerHalo(bc_connection_info[k], i) : i \in 0 .. (bc_connection_info[k][3] - 1)} :
              k \in {n \in 1 .. Len(bc_connection_info) : bc_connection_info[n][1][1] = b}}

\* the locations of a field of a block whose value differs from the start of the call
Modified(name, b) == {x \in DOMAIN fields[name][b] : fields[name][b][x] # snap[name][b][x]}

\* C14: a bc_interblock call for a copy stage (-1, 0, 1, 20) modifies only halo cells
\* of the owner block of a registered coupling, one step outside the real cells across
\* the coupled face: no real cell of any block and no surface entry is modified, and a
\* block that is only a neighbor side is left unchanged.
C14_CopyStageFrame ==
    (pc \in {"xfer", "synced"} /\ ib.stage \in CopyStages) =>
        \A b \in Blocks :
            /\ \A name \in SurfFieldNames : Modified(name, b) = {}
            /\ \A name \in CellFieldNames \cup {"elem_width"} :
                   /\ Modified(name, b) \cap RealCells(b) = {}
                   /\ Modified(name, b) \subseteq CoupledHalo(b) \cap HaloCells(b)
                   /\ b \notin OwnerBlocks => Modified(name, b) = {}

\* C14 witness: a gradient sync has returned for two couplings owned by block 0 whose
\* neighbor is block 1, and block 0's halo has changed
C14_Witness ==
    /\ pc = "synced"
    /\ ib.stage = 1
    /\ Len(bc_connection_info) = 2
    /\ OwnerBlocks = {0}
    /\ bc_connection_info[1][2][1] = 1
    /\ Modified("gradient_v_c", 0) # {}

\* the offset from a cell to its bounding face entry: 0 on the end side, -1 on the
\* start side along the face's own axis
SurfaceRangeOffset(face, face_end) ==
    IF face_end = 1 THEN <<0, 0>>
    ELSE IF face = 0 THEN <<-1, 0>> ELSE <<0, -1>>

\* the entry <<cell + offset, face>> of the surface fields for a cell of one side
SurfaceEntry(cell, bc_desc) ==
    LET off == SurfaceRangeOffset(bc_desc[4], bc_desc[5])
    IN  <<<<cell[1] + off[1], cell[2] + off[2]>>, bc_desc[4]>>

\* the real cell I of the owner side of transfer i
OwnerReal(coupling, i) ==
    LET r == calc_bc_connection_positions(Info(coupling[1]),
                                          ni(coupling[1][1]), nj(coupling[1][1]))
    IN  <<r[1][1] + i * r[2][1], r[1][2] + i * r[2][2]>>

SurfaceStageFields(stage) ==
    IF stage = 21 THEN {"v_surf", "temp_surf"} ELSE {"gradient_v_surf", "gradient_temp_surf"}

\* C16: in the surface stages 21 (v_surf, temp_surf) and 22 (gradient_v_surf,
\* gradient_temp_surf) every transfer writes the owner's field at
\* [I + SurfaceRangeOffset(owner face, owner end), owner face] the neighbor's value at
\* [I_other + SurfaceRangeOffset(neighbor face, neighbor end), neighbor face], and
\* nothing else is written (checked after the first coupling of the call).
C16_SurfaceStageIndexing ==
    (pc = "xfer" /\ ib.active /\ ib.k = 2 /\ ib.stage \in {21, 22}) =>
        LET c == bc_connection_info[1]
            written == {SurfaceEntry(OwnerReal(c, i), c[1]) : i \in 0 .. (c[3] - 1)}
        IN  /\ \A i \in 0 .. (c[3] - 1) : \A name \in SurfaceStageFields(ib.stage) :
                   fields[name][c[1][1]][SurfaceEntry(OwnerReal(c, i), c[1])]
                       = snap[name][c[2][1]][SurfaceEntry(NeighborReal(c, i), c[2])]
            /\ \A b \in Blocks :
                   /\ \A name \in CellFieldNames \cup {"elem_width"} : Modified(name, b) = {}
                   /\ \A name \in SurfFieldNames :
                          Modified(name, b) \subseteq
                              (IF b = c[1][1] /\ name \in SurfaceStageFields(ib.stage)
                               THEN written ELSE {})

\* C16 witness: the first coupling of a surface-gradient sync has run between an i-face
\* start side and a j-face end side
C16_Witness ==
    /\ pc = "xfer"
    /\ ib.active
    /\ ib.k = 2
    /\ ib.stage = 22
    /\ bc_connection_info[1][1][4] = 0
    /\ bc_connection_info[1][1][5] = 0
    /\ bc_connection_info[1][2][4] = 1
    /\ bc_connection_info[1][2][5] = 1
    /\ Modified("gradient_v_surf", bc_connection_info[1][1][1]) # {}

----------------------------------------------------------------------------
(* Display calls and the batch counter *)

\* the calls of a complete non-paused pass with batch index n: the sub-steps, then the
\* display calls that are configured
BatchCalls(n) ==
    [k \in 1 .. cfg.display_steps |->
        IF cfg.is_dual_time THEN <<"step_dual", n>> ELSE <<"step">>]
    \o (IF cfg.display_field THEN << <<"display", n>> >> ELSE <<>>)
    \o (IF cfg.output_line THEN << <<"display_output_line">> >> ELSE <<>>)

DisplayCalls(calls) == {k \in 1 .. Len(calls) : calls[k][1] \in {"display", "display_output_line"}}

\* the loop has just completed a non-paused pass
BatchCompleted == pc = "while" /\ Len(rlog) > 0 /\ rlog[1][1] \in {"step", "step_dual"}

\* C17: after each non-paused batch run() calls drawer.display(step_index) once iff
\* display_field is set and drawer.display_output_line() once iff output_line is set,
\* never between the sub-steps of a batch, and then increments step_index by one, so
\* step_index is the number of completed non-paused batches.
C17_DisplayAfterBatch ==
    /\ BatchCompleted => (step_index >= 1 /\ rlog = BatchCalls(step_index - 1))
    /\ (pc \in {"batch", "in_step"}) => DisplayCalls(rlog) = {}
    /\ pc \in {"while", "batch", "in_step"} =>
           t = cfg.display_steps * step_index + (IF pc = "while" THEN 0 ELSE blk)

\* C17 witness: the second batch of two sub-steps has completed with both displays configured
C17_Witness ==
    /\ BatchCompleted
    /\ cfg.display_field
    /\ cfg.output_line
    /\ cfg.display_steps = 2
    /\ step_index = 2
    /\ Len(rlog) = 4

----------------------------------------------------------------------------
(* Further properties of step() and step_dual() *)

\* the time_* calls of one step()
ExpectedStepTrace ==
    OnAll(<<"time_save_q">>)
    \o OnAll(<<"time_march_rk3", 0>>)
    \o OnAll(<<"time_march_rk3", 1>>)
    \o OnAll(<<"time_march_rk3", 2>>)

\* the number of state advances called so far in the step
Advances == CountIn(trace, {<<"time_march_rk3", i, b>> : i \in 0 .. 2, b \in Blocks})

\* the calls of the current sub-stage other than the state advance
SubStageCalls == {n \in 1 .. Len(log) : Rank(log[n]) \in 1 .. 14}

\* C19: one step() calls time_save_q once on every block before any sub-stage hook,
\* then runs three sub-stages in which time_march_rk3 is called once per block with
\* index 0, then 1, then 2; sub-stage k+1 starts only after time_march_rk3(k) has been
\* called on every block.
C19_StepStructure ==
    (~cfg.is_dual_time /\ pc = "in_step") =>
        /\ Len(trace) <= Len(ExpectedStepTrace)
        /\ \A n \in 1 .. Len(trace) : trace[n] = ExpectedStepTrace[n]
        /\ sp.fn = "none" => trace = ExpectedStepTrace
        /\ SubStageCalls # {} =>
               LET before == Advances - Cardinality({n \in 1 .. Len(log) : Rank(log[n]) = 15})
               IN  /\ Len(trace) >= NSolvers
                   /\ before % NSolvers = 0
                   /\ before \div NSolvers \in 0 .. 2
                   /\ \A n \in 1 .. Len(log) :
                          Rank(log[n]) = 15 => log[n][2] = before \div NSolvers

\* C19 witness: step() on two blocks has returned after its six state advances
C19_Witness ==
    /\ ~cfg.is_dual_time
    /\ pc = "in_step"
    /\ sp.fn = "none"
    /\ NSolvers = 2
    /\ Advances = 6
    /\ trace[8] = <<"time_march_rk3", 2, 1>>

DiffusionCalls ==
    {"calc_u_temp_center", "flux_diffusion_interp_qsurf",
     "flux_diffusion_integrate_gradient_center", "flux_diffusion_calc_gradient_surf",
     "calc_flux_diffusion"}

\* the stages of the bc_interblock calls of the current sub-stage, in call order
RECURSIVE SyncsFrom(_)
SyncsFrom(n) ==
    IF n > Len(log) THEN <<>>
    ELSE (IF log[n][1] = "bc_interblock" THEN <<log[n][2]>> ELSE <<>>) \o SyncsFrom(n + 1)

\* C20: when is_viscous is false a sub-stage of step() or step_dual() calls none of
\* the diffusion hooks, none of bc(21), bc(1), bc(22), and no bc_interblock with stage
\* 20, 21, 1 or 22: its only syncs are stage 0 followed by stage 10.
C20_InviscidSkipsDiffusion ==
    (~cfg.is_viscous /\ pc = "in_step") =>
        /\ \A n \in 1 .. Len(log) :
               /\ log[n][1] \notin DiffusionCalls
               /\ log[n][1] = "bc" => log[n][2] \in {0, 10}
               /\ log[n][1] \in {"bc_interblock", "bc_connection"} => log[n][2] \in {0, 10}
        /\ SyncsFrom(1) \in {<<>>, <<0>>, <<0, 10>>}
        /\ (Len(log) > 0 /\ Rank(log[Len(log)]) = 15) => SyncsFrom(1) = <<0, 10>>

\* C20 witness: an inviscid sub-stage of step_dual on two coupled blocks has advanced
\* the state after its two syncs
C20_Witness ==
    /\ ~cfg.is_viscous
    /\ cfg.is_dual_time
    /\ pc = "in_step"
    /\ NSolvers = 2
    /\ Len(bc_connection_info) = 2
    /\ Len(log) > 0
    /\ Rank(log[Len(log)]) = 15
    /\ SyncsFrom(1) = <<0, 10>>

----------------------------------------------------------------------------
(* Halo freshness inside a sub-stage *)

\* every coupled halo cell of a cell field holds the current value of its paired
\* neighbor real cell
Fresh(name) ==
    \A k \in 1 .. Len(bc_connection_info) :
        LET c == bc_connection_info[k]
        IN  \A i \in 0 .. (c[3] - 1) :
                fields[name][c[1][1]][OwnerHalo(c, i)] = fields[name][c[2][1]][NeighborReal(c, i)]

\* every coupled boundary-face entry of a surface field holds the current value of the
\* paired entry of the neighbor
FreshSurf(name) ==
    \A k \in 1 .. Len(bc_connection_info) :
        LET c == bc_connection_info[k]
        IN  \A i \in 0 .. (c[3] - 1) :
                fields[name][c[1][1]][SurfaceEntry(OwnerReal(c, i), c[1])]
                    = fields[name][c[2][1]][SurfaceEntry(NeighborReal(c, i), c[2])]

\* the bc_interblock call of the given place of the current sub-stage has processed
\* every coupling
SyncDone(rank) == CountBefore(Len(log) + 1, rank) = GroupSize(rank)

\* no call of the given place or a later one has been made in the current sub-stage
NoneFrom(rank) == \A n \in 1 .. Len(log) : Rank(log[n]) < rank

\* C18: in every sub-stage of step() and step_dual(), from the completion of
\* bc_interblock(0) to the start of the state advance no real-cell q is modified and
\* every coupled halo q equals the current q of its paired neighbor real cell; the
\* same holds for v_c/temp_c after bc_interblock(20), the surface values after
\* bc_interblock(21), the center gradients after bc_interblock(1) and the surface
\* gradients after bc_interblock(22), up to the hook that consumes them.
C18_HaloFreshAtConsumption ==
    pc = "in_step" =>
        /\ (SyncDone(2) /\ NoneFrom(15)) =>
               /\ Fresh("q")
               /\ \A b \in Blocks : \A x \in RealCells(b) : fields.q[b][x] = snap.q[b][x]
        /\ (SyncDone(5) /\ NoneFrom(7)) => (Fresh("v_c") /\ Fresh("temp_c"))
        /\ (SyncDone(7) /\ NoneFrom(9)) => (FreshSurf("v_surf") /\ FreshSurf("temp_surf"))
        /\ (SyncDone(9) /\ NoneFrom(11)) =>
               (Fresh("gradient_v_c") /\ Fresh("gradient_temp_c"))
        /\ (SyncDone(11) /\ NoneFrom(13)) =>
               (FreshSurf("gradient_v_surf") /\ FreshSurf("gradient_temp_surf"))

\* C18 witness: in the second step of a viscous run on two blocks joined in both
\* directions, block 1 runs flux_advect with every halo q current
C18_Witness ==
    /\ pc = "in_step"
    /\ cfg.is_viscous
    /\ NSolvers = 2
    /\ bc_connection_info = <<Seam, Reverse(Seam)>>
    /\ t >= 1
    /\ Len(log) > 0
    /\ log[Len(log)] = <<"flux_advect", 1>>
    /\ Fresh("q")
    /\ fields.q[0][OwnerHalo(Seam, 0)] # <<1, 1, NJ>>

\* step() has returned on blocks joined by a connection registered in both directions
StepReturned ==
    /\ pc = "in_step"
    /\ sp.fn = "none"
    /\ ~cfg.is_dual_time
    /\ Len(bc_connection_info) = 2
    /\ bc_connection_info[2] = Reverse(bc_connection_info[1])

----------------------------------------------------------------------------
(* Setup of run() and the blocks it covers *)

\* the calls of the setup of run() up to the geometry sync
SetupCalls ==
    << <<"set_gui">> >>
    \o [b \in 1 .. cfg.n_blocks |-> <<"init", b - 1>>]
    \o << <<"bc_interblock", -1>> >>

\* the geometry syncs recorded among the synchronizer calls
GeometrySyncs == {n \in 1 .. Len(log) : log[n] = <<"bc_interblock", -1>>}

\* C21: run() sets up in the order drawer.set_gui, init() on the blocks,
\* bc_interblock(-1), drawer.init_display, first pass of the loop; the geometry sync
\* runs exactly once, after the block init and before the first step, and neither
\* step(), step_dual() nor the loop issues stage -1 again.
C21_SetupOrder ==
    /\ pc = "geom_sync" => (rlog = SetupCalls /\ t = 0 /\ Cardinality(GeometrySyncs) = 1)
    /\ pc = "init_display" => (rlog = SetupCalls /\ t = 0 /\ Cardinality(GeometrySyncs) = 1)
    /\ (pc = "while" /\ t = 0 /\ step_index = 0 /\ Len(rlog) > 0 /\ rlog[1] = <<"set_gui">>) =>
           /\ rlog = Append(SetupCalls, <<"init_display">>)
           /\ Cardinality(GeometrySyncs) = 1
    /\ pc = "init" => (GeometrySyncs = {} /\ \A n \in 1 .. Len(rlog) : rlog[n][1] \in {"set_gui", "init"})
    /\ pc = "in_step" =>
           /\ \A n \in 1 .. Len(log) :
                  log[n][1] \in {"bc_interblock", "bc_connection"} => log[n][2] # -1
           /\ \A n \in 1 .. Len(rlog) : rlog[n][1] \in {"step", "step_dual"}
           /\ ib.active => ib.stage # -1
    /\ pc \in {"while", "batch"} =>
           /\ Cardinality(GeometrySyncs) <= 1
           /\ GeometrySyncs # {} => (t = 0 /\ step_index = 0)
           /\ (\E n \in 1 .. Len(rlog) : rlog[n] = <<"bc_interblock", -1>>) =>
                  rlog = Append(SetupCalls, <<"init_display">>)
    /\ (ib.active /\ ib.stage = -1) => pc = "geom_sync"

\* C21 witness: the second batch is running after a setup on two blocks joined in both
\* directions
C21_Witness ==
    /\ pc = "in_step"
    /\ step_index = 1
    /\ cfg.n_blocks = 2
    /\ NSolvers = 2
    /\ Len(bc_connection_info) = 2
    /\ inited = {0, 1}
    /\ Len(log) > 2

\* the blocks a hook of the current sub-stage has been called on
SteppedBlocks ==
    {log[n][Len(log[n])] : n \in {m \in 1 .. Len(log) : log[m][1] \notin {"bc_interblock", "bc_connection"}}}

\* C22: for any constructor arguments n_blocks and block_dimensions, every block
\* solver that step()/step_dual() operates on has had init() called on it and receives
\* the t update after each sub-step: the blocks initialised and time-stamped by run()
\* (0..n_blocks-1) are the blocks stepped.
C22_InitialisedAreStepped ==
    /\ pc # "IndexError"
    /\ pc = "in_step" => SteppedBlocks \subseteq inited
    /\ (pc = "batch" /\ blk > 0) =>
           /\ inited = Blocks
           /\ \A b \in Blocks : solver_t[b] = t

====
